---- MODULE Spec2Model ----
(***************************************************************************)
(* A model of darwin/dataset/utils.py: the cross-contamination repair      *)
(* (remove_cross_contamination), the stratified partitioner                *)
(* (_stratify_samples), the random partitioner and the split orchestrator  *)
(* (split_dataset) with the part of the file system it reads and writes.   *)
(*                                                                         *)
(* A fraction (val_percentage, test_percentage) is named by its             *)
(* thousandths: 250 names the Python float 0.25, the double nearest to     *)
(* 250/1000.  The arithmetic on fractions is the code's, on doubles.  An   *)
(* absent (None) argument is <<>>, a present one is <<x>>.  numpy arrays   *)
(* are sequences; the lists built from set(...) on return are sets.        *)
(***************************************************************************)
EXTENDS Integers, Sequences, FiniteSets, TLC

VARIABLES
    rcc,      \* one call of remove_cross_contamination: arguments and result
    strat,    \* one call of _stratify_samples: arguments and result
    rnd,      \* one run of the random split of split_dataset
    dataset,  \* the dataset on disk: its annotation files and their labels
    lists,    \* whether <dataset>/lists exists
    dirs,     \* the split directories under lists: split_id -> its files
    class_files, \* lists/classes_<type>.txt: the class names in it, or <<>>
    alias,    \* the symlink lists/split: <<>>, or <<its target>>
    last,     \* the last call of split_dataset: arguments and outcome
    ncalls    \* calls of split_dataset made so far

splitVars == <<dataset, lists, dirs, class_files, alias, last, ncalls>>
vars == <<rcc, strat, rnd, dataset, lists, dirs, class_files, alias, last, ncalls>>

(***************************************************************************)
(* Bounds of the model.                                                    *)
(***************************************************************************)
MaxLenA == 3       \* longest X_a handed to the repair on its own
MaxLenB == 2       \* longest X_b handed to the repair on its own

RepairValues == {1, 2}          \* image indices in the repair's arrays
RepairLabels == {"a", "b"}      \* label values in the repair's arrays

(***************************************************************************)
(* Sequence helpers (numpy indexing).                                      *)
(***************************************************************************)
SeqsUpTo(S, n) == UNION {[1..k -> S] : k \in 0..n}

Values(X) == {X[i] : i \in 1..Len(X)}

Count(X, a) == Cardinality({i \in 1..Len(X) : X[i] = a})

\* the k-th component of each row: zip(*rows)[k]
Column(rows, k) == [i \in 1..Len(rows) |-> rows[i][k]]

\* `a in X` on an ndarray
Contains(X, a) == \E i \in 1..Len(X) : X[i] = a

\* X[keep_locations]: the entries of X at the positions where keep is TRUE,
\* in their order
RECURSIVE TakeFrom(_, _, _)
TakeFrom(X, keep, i) ==
    IF i > Len(X) THEN <<>>
    ELSE (IF keep[i] THEN <<X[i]>> ELSE <<>>) \o TakeFrom(X, keep, i + 1)

Take(X, keep) == TakeFrom(X, keep, 1)

\* a bug: only the first occurrence of a is dropped
KeepAllButFirst(X, a) ==
    [i \in 1..Len(X) |-> ~(X[i] = a /\ \A j \in 1..(i - 1) : X[j] # a)]

\* keep_locations = X != a
KeepLocations(X, a) == [i \in 1..Len(X) |-> X[i] # a]

(***************************************************************************)
(* Python floats.  A float is an IEEE-754 double; the ones the code meets  *)
(* are finite and not negative.  One is held as [m, e] for m * 2^e with    *)
(* 2^52 <= m < 2^53, or m = 0 and e = 0.  The mantissa does not fit a      *)
(* machine integer of the checker, so it is a natural number written in    *)
(* base 2^15, lowest digit first, without leading zero digits (0 is <<>>). *)
(***************************************************************************)
Base == 32768

Digit(x, i) == IF i <= Len(x) THEN x[i] ELSE 0

RECURSIVE BTrim(_)
BTrim(x) ==
    IF Len(x) > 0 /\ x[Len(x)] = 0 THEN BTrim(SubSeq(x, 1, Len(x) - 1)) ELSE x

RECURSIVE BFromInt(_)
BFromInt(n) == IF n = 0 THEN <<>> ELSE <<n % Base>> \o BFromInt(n \div Base)

RECURSIVE BToInt(_)
BToInt(x) == IF x = <<>> THEN 0 ELSE x[1] + Base * BToInt(Tail(x))

RECURSIVE Pow2(_)
Pow2(k) == IF k = 0 THEN 1 ELSE 2 * Pow2(k - 1)

RECURSIVE BitsOf(_)
BitsOf(n) == IF n = 0 THEN 0 ELSE 1 + BitsOf(n \div 2)

\* the number of binary digits of x
BBits(x) == IF x = <<>> THEN 0 ELSE 15 * (Len(x) - 1) + BitsOf(x[Len(x)])

RECURSIVE BAddFrom(_, _, _, _)
BAddFrom(x, y, i, carry) ==
    IF i > Len(x) /\ i > Len(y)
    THEN (IF carry = 0 THEN <<>> ELSE <<carry>>)
    ELSE LET s == Digit(x, i) + Digit(y, i) + carry
         IN  <<s % Base>> \o BAddFrom(x, y, i + 1, s \div Base)

BAdd(x, y) == BAddFrom(x, y, 1, 0)

RECURSIVE BSubFrom(_, _, _, _)
BSubFrom(x, y, i, borrow) ==
    IF i > Len(x) THEN <<>>
    ELSE LET d == Digit(x, i) - Digit(y, i) - borrow
         IN  <<(IF d < 0 THEN d + Base ELSE d)>>
             \o BSubFrom(x, y, i + 1, IF d < 0 THEN 1 ELSE 0)

\* x - y, for x >= y
BSub(x, y) == BTrim(BSubFrom(x, y, 1, 0))

RECURSIVE BCmpFrom(_, _, _)
BCmpFrom(x, y, i) ==
    IF i = 0 THEN 0
    ELSE IF x[i] # y[i] THEN (IF x[i] < y[i] THEN -1 ELSE 1)
    ELSE BCmpFrom(x, y, i - 1)

\* -1, 0 or 1 as x is less than, equal to or greater than y
BCmp(x, y) ==
    IF Len(x) # Len(y) THEN (IF Len(x) < Len(y) THEN -1 ELSE 1)
    ELSE BCmpFrom(x, y, Len(x))

RECURSIVE BMulSmallFrom(_, _, _, _)
BMulSmallFrom(x, d, i, carry) ==
    IF i > Len(x) THEN (IF carry = 0 THEN <<>> ELSE <<carry>>)
    ELSE LET p == x[i] * d + carry
         IN  <<p % Base>> \o BMulSmallFrom(x, d, i + 1, p \div Base)

\* x * d, for one digit d
BMulSmall(x, d) == IF d = 0 THEN <<>> ELSE BMulSmallFrom(x, d, 1, 0)

RECURSIVE BMul(_, _)
BMul(x, y) ==
    IF x = <<>> \/ y = <<>> THEN <<>>
    ELSE LET rest == BMul(x, Tail(y))
             shifted == IF rest = <<>> THEN <<>> ELSE <<0>> \o rest
         IN  IF y[1] = 0 THEN shifted ELSE BAdd(BMulSmall(x, y[1]), shifted)

\* x * 2^k
BShl(x, k) ==
    IF x = <<>> THEN <<>>
    ELSE [i \in 1..(k \div 15) |-> 0] \o BMulSmall(x, Pow2(k % 15))

\* the digits of floor(x / d) for one digit d > 0, from digit i down, r
\* being the remainder carried into digit i; and x % d
RECURSIVE BDivSmallFrom(_, _, _, _, _)
BDivSmallFrom(x, d, i, r, q) ==
    IF i = 0 THEN [q |-> BTrim(q), r |-> BFromInt(r)]
    ELSE BDivSmallFrom(x, d, i - 1, (r * Base + x[i]) % d,
                       <<(r * Base + x[i]) \div d>> \o q)

\* quotient and remainder of x by one digit d > 0
BDivSmall(x, d) == BDivSmallFrom(x, d, Len(x), 0, <<>>)

\* floor(x / 2^k)
BShr(x, k) ==
    IF k \div 15 >= Len(x) THEN <<>>
    ELSE BDivSmall(SubSeq(x, (k \div 15) + 1, Len(x)), Pow2(k % 15)).q

\* long division of x by y from digit i of x down, r being the remainder
\* carried into digit i and q the digits of the quotient so far.  The
\* quotient digit is estimated from the leading digits of the remainder and
\* lowered until its product t with y is no more than the remainder.
RECURSIVE BDivFrom(_, _, _, _, _)
RECURSIVE BQuotientDigit(_, _, _, _, _, _, _)
BDivFrom(x, y, i, r, q) ==
    IF i = 0 THEN [q |-> BTrim(q), r |-> r]
    ELSE LET cur == BTrim(<<x[i]>> \o r)
             est == (Digit(cur, Len(y) + 1) * Base + Digit(cur, Len(y))) \div y[Len(y)]
             qhat == IF est > Base - 1 THEN Base - 1 ELSE est
         IN  BQuotientDigit(x, y, i, q, cur, qhat, BMulSmall(y, qhat))

BQuotientDigit(x, y, i, q, cur, qhat, t) ==
    IF BCmp(t, cur) > 0
    THEN BQuotientDigit(x, y, i, q, cur, qhat - 1, BSub(t, y))
    ELSE BDivFrom(x, y, i - 1, BSub(cur, t), <<qhat>> \o q)

\* the quotient and remainder of xs by ys, both scaled by 2^s
BDivScaled(xs, ys, s) ==
    [BDivFrom(xs, ys, Len(xs), <<>>, <<>>) EXCEPT !.r = BShr(@, s)]

\* quotient and remainder of x by y > 0 (the divisor scaled so that its
\* leading digit is at least Base / 2)
BDivMod(x, y) ==
    IF Len(y) = 1 THEN BDivSmall(x, y[1])
    ELSE LET s == (15 - (BBits(y) % 15)) % 15
         IN  BDivScaled(BShl(x, s), BShl(y, s), s)

FZero == [m |-> <<>>, e |-> 0]

\* [r, e] with r of 53 or 54 binary digits, as a float
Renormal(r, e) ==
    IF BBits(r) = 54 THEN [m |-> BShr(r, 1), e |-> e + 1] ELSE [m |-> r, e |-> e]

\* round to nearest, ties to even: t holds the 54 leading binary digits of
\* the value, `inexact` tells of a non-zero digit after them
RoundHalf(t, inexact, e) ==
    IF t[1] % 2 = 1 /\ (inexact \/ t[1] % 4 = 3)
    THEN Renormal(BAdd(BShr(t, 1), <<1>>), e)
    ELSE [m |-> BShr(t, 1), e |-> e]

\* the double nearest to (q + f) * 2^e, where q has 54 binary digits or
\* more and 0 <= f < 1 is zero exactly if `exact`
RoundTo53(q, exact, e) ==
    LET t == BShr(q, BBits(q) - 54)
    IN  RoundHalf(t, ~exact \/ BShl(t, BBits(q) - 54) # q, e + BBits(q) - 53)

\* the double nearest to P * 2^s
RoundInt(P, s) ==
    IF P = <<>> THEN FZero
    ELSE IF BBits(P) <= 53
    THEN [m |-> BShl(P, 53 - BBits(P)), e |-> s - (53 - BBits(P))]
    ELSE RoundTo53(P, TRUE, s)

\* the number of zero digits x begins with, from digit i on
RECURSIVE ZeroDigits(_, _)
ZeroDigits(x, i) == IF i < Len(x) /\ x[i] = 0 THEN ZeroDigits(x, i + 1) ELSE i - 1

\* the double nearest to d.q * 2^s, or a little more if d.r is not zero
RoundQuotient(d, s) == RoundTo53(d.q, d.r = <<>>, s)

\* the double nearest to (P / D) * 2^s, the quotient taken to 54 or 55
\* binary digits
RoundScaled(P, D, s, k) ==
    RoundQuotient(BDivMod(IF k >= 0 THEN BShl(P, k) ELSE P,
                          IF k >= 0 THEN D ELSE BShl(D, 0 - k)), s - k)

\* the double nearest to (P / Q) * 2^s, for P > 0 and Q > 0; the zero
\* digits Q begins with are divided out first
RoundRat(P, Q, s) ==
    LET z == ZeroDigits(Q, 1)
        D == SubSeq(Q, z + 1, Len(Q))
    IN  RoundScaled(P, D, s - 15 * z, 54 - (BBits(P) - BBits(D)))

\* float(n) for an int n >= 0, which a double holds exactly
FromInt(n) ==
    IF n = 0 THEN FZero
    ELSE [m |-> BShl(BFromInt(n), 53 - BitsOf(n)), e |-> BitsOf(n) - 53]

\* p / q on ints, and the float a decimal literal p/q denotes
FromRatio(p, q) == IF p = 0 THEN FZero ELSE RoundRat(BFromInt(p), BFromInt(q), 0)

FMul(a, b) ==
    IF a.m = <<>> \/ b.m = <<>> THEN FZero
    ELSE RoundTo53(BMul(a.m, b.m), TRUE, a.e + b.e)

FDiv(a, b) == IF a.m = <<>> THEN FZero ELSE RoundRat(a.m, b.m, a.e - b.e)

FAdd(a, b) ==
    IF a.m = <<>> THEN b
    ELSE IF b.m = <<>> THEN a
    ELSE LET e == IF a.e < b.e THEN a.e ELSE b.e
         IN  RoundInt(BAdd(BShl(a.m, a.e - e), BShl(b.m, b.e - e)), e)

\* a - b, for a >= b
FSub(a, b) ==
    IF b.m = <<>> THEN a
    ELSE LET e == IF a.e < b.e THEN a.e ELSE b.e
         IN  RoundInt(BSub(BShl(a.m, a.e - e), BShl(b.m, b.e - e)), e)

\* -1, 0 or 1 as a < b, a = b or a > b
FCmp(a, b) ==
    IF a.m = <<>> THEN (IF b.m = <<>> THEN 0 ELSE -1)
    ELSE IF b.m = <<>> THEN 1
    ELSE IF a.e # b.e THEN (IF a.e < b.e THEN -1 ELSE 1)
    ELSE BCmp(a.m, b.m)

\* int(a) and math.floor(a)
FFloor(a) == BToInt(IF a.e >= 0 THEN BShl(a.m, a.e) ELSE BShr(a.m, 0 - a.e))

\* math.ceil(a)
FCeil(a) ==
    FFloor(a) + (IF a.e >= 0 \/ BShl(BShr(a.m, 0 - a.e), 0 - a.e) = a.m
                 THEN 0 ELSE 1)

\* the Python float a fraction of the model names: the double nearest to
\* thousandths / 1000
Float(thousandths) == FromRatio(thousandths, 1000)

F100 == FromInt(100)

F1 == FromInt(1)

(***************************************************************************)
(* remove_cross_contamination.  st holds the four arrays as the loop       *)
(* rebinds them, and `flipped`, the values np.random.rand() was drawn for  *)
(* (in order).  The loop runs over the array X_a as it was passed: the     *)
(* for statement keeps iterating the original object after X_a is rebound. *)
(* coin[i] is the outcome of the draw of iteration i, TRUE for             *)
(* np.random.rand() > 0.5.                                                 *)
(***************************************************************************)
RemoveFromA(st, a) ==
    LET keep_locations == KeepLocations(st.X_a, a)
    IN  [st EXCEPT !.X_a = Take(st.X_a, keep_locations),
                   !.y_a = Take(st.y_a, keep_locations),
                   !.flipped = Append(@, a)]

RemoveFromB(st, a) ==
    LET keep_locations == KeepLocations(st.X_b, a)
    IN  [st EXCEPT !.X_b = Take(st.X_b, keep_locations),
                   !.y_b = Take(st.y_b, keep_locations),
                   !.flipped = Append(@, a)]

RepairStep(st, a, heads) ==
    IF ~Contains(st.X_b, a) THEN st
    ELSE IF heads THEN RemoveFromA(st, a)
    ELSE RemoveFromB(st, a)

RECURSIVE RepairLoop(_, _, _, _)
RepairLoop(st, iter, coin, i) ==
    IF i > Len(iter) THEN st
    ELSE RepairLoop(RepairStep(st, iter[i], coin[i]), iter, coin, i + 1)

remove_cross_contamination(X_a, X_b, y_a, y_b, coin) ==
    RepairLoop([X_a |-> X_a, X_b |-> X_b, y_a |-> y_a, y_b |-> y_b,
                flipped |-> <<>>],
               X_a, coin, 1)

Coins(X_a) == [1..Len(X_a) -> BOOLEAN]

(***************************************************************************)
(* _stratify_samples.                                                      *)
(***************************************************************************)
NImages == 4       \* images 0 .. NImages-1 may carry labels
MaxRows == 6       \* most (image, label) pairs in idx_to_classes

Images == 0..(NImages - 1)
LabelSeq == <<"a", "b", "c">>      \* the label names, in sorted order
Labels == Values(LabelSeq)

\* idx_to_classes as extract_classes builds it: a key only for an image
\* that carries a label
Mappings ==
    {m \in UNION {[D -> (SUBSET Labels) \ {{}}] : D \in SUBSET Images} :
        LET RECURSIVE Rows(_)
            Rows(D) == IF D = {} THEN 0
                       ELSE LET k == CHOOSE k \in D : TRUE
                            IN  Cardinality(m[k]) + Rows(D \ {k})
        IN  Rows(DOMAIN m) <= MaxRows}

\* the orders in which a set of labels can be iterated: the order of a
\* Python set of str follows the hashes, which differ from run to run
Orders(v) ==
    {o \in [1..Cardinality(v) -> v] : \A i, j \in 1..Cardinality(v) : o[i] = o[j] => i = j}

\* expanded_list = [(k, c) for k, v in idx_to_classes.items() for c in v],
\* from key k on: the keys in insertion (file) order, the labels of a key
\* in any order; every list the comprehension can build
RECURSIVE ExpandFrom(_, _)
ExpandFrom(idx, k) ==
    IF k >= NImages THEN {<<>>}
    ELSE IF k \notin DOMAIN idx THEN ExpandFrom(idx, k + 1)
    ELSE {[i \in 1..Len(o) |-> <<k, o[i]>>] \o rest :
            o \in Orders(idx[k]), rest \in ExpandFrom(idx, k + 1)}

expanded_list(idx) == ExpandFrom(idx, 0)

\* np.delete(X, index)
Delete(X, index) == [i \in 1..(Len(X) - 1) |-> IF i < index THEN X[i] ELSE X[i + 1]]

\* np.where(labels == l)[0][0]
FirstIndex(labels, l) ==
    CHOOSE i \in 1..Len(labels) : labels[i] = l /\ \A j \in 1..(i - 1) : labels[j] # l

\* lines 199-205: for l in unique_labels[count == 1], in sorted order;
\* count[l] is the support of l before the loop
RECURSIVE ExtractSingles(_, _, _)
ExtractSingles(st, count, j) ==
    IF j > Len(LabelSeq) THEN st
    ELSE LET l == LabelSeq[j]
         IN  IF count[l] = 1
             THEN LET index == FirstIndex(st.labels, l)
                  IN  ExtractSingles(
                          [single_files |-> Append(st.single_files, st.file_indices[index]),
                           labels |-> Delete(st.labels, index),
                           file_indices |-> Delete(st.file_indices, index)],
                          count, j + 1)
             ELSE ExtractSingles(st, count, j + 1)

\* lines 195-208, given the rows of expanded_list.  zip(*expanded_list) of
\* an empty list yields nothing to unpack into (file_indices, labels):
\* ValueError
StratifyRows(rows) ==
    IF Len(rows) = 0 THEN [kind |-> "raise"]
    ELSE LET labels == Column(rows, 2)
             st == ExtractSingles([single_files |-> <<>>,
                                   labels |-> labels,
                                   file_indices |-> Column(rows, 1)],
                                  [l \in Labels |-> Count(labels, l)], 1)
         IN  IF Len(st.file_indices) = 0 \/ Len(st.labels) = 0
             THEN [kind |-> "return", train |-> {}, val |-> {}, test |-> {},
                   test_none |-> FALSE]
             ELSE [kind |-> "continue", file_indices |-> st.file_indices,
                   labels |-> st.labels, single_files |-> st.single_files]

\* lines 193-208: every outcome, one for each order of the rows
StratifyBegin(idx) == {StratifyRows(rows) : rows \in expanded_list(idx)}

(***************************************************************************)
(* sklearn's train_test_split(X, y, test_size=<float>, stratify=y), as     *)
(* _stratify_samples calls it: the set of its outcomes over all random     *)
(* states.  n_test = ceil(test_size * n), n_train = n - n_test; each class *)
(* gets its share of n_train rounded down, the rows left over going to the *)
(* classes with the largest remainders (ties broken at random); which rows *)
(* of a class go to the train side is random.  The products, shares and    *)
(* remainders are floats.  It raises ValueError for a test_size outside    *)
(* (0, 1), an empty train side, a class with fewer than two rows, or fewer *)
(* train or test rows than classes.  The rows of each side are given here  *)
(* in input order: sklearn shuffles them, and neither the repair nor the   *)
(* sets returned depend on that order.                                     *)
(***************************************************************************)
RECURSIVE SumOver(_, _)
SumOver(f, S) ==
    IF S = {} THEN 0
    ELSE LET c == CHOOSE c \in S : TRUE IN f[c] + SumOver(f, S \ {c})

\* one class in _approximate_mode, given
\* continuous = class_counts / class_counts.sum() * n_draws: the floor and
\* the remainder continuous - floored
Share(continuous) ==
    [floored |-> FFloor(continuous),
     remainder |-> FSub(continuous, FromInt(FFloor(continuous)))]

\* the shares of all classes, as a table
RECURSIVE Shares(_, _, _, _)
Shares(class_counts, C, total, n_draws) ==
    IF C = {} THEN <<>>
    ELSE LET c == CHOOSE c \in C : TRUE
         IN  (c :> Share(FMul(FDiv(FromInt(class_counts[c]), FromInt(total)),
                              FromInt(n_draws))))
             @@ Shares(class_counts, C \ {c}, total, n_draws)

\* the allocations with need_to_add classes raised by one, in the order of
\* their remainders, largest first, equal remainders in random order
Raised(C, share, need_to_add) ==
    {[c \in C |-> share[c].floored + (IF c \in E THEN 1 ELSE 0)] :
        E \in {E \in SUBSET C :
                 /\ Cardinality(E) = need_to_add
                 /\ \A c \in E, d \in C \ E :
                       FCmp(share[c].remainder, share[d].remainder) >= 0}}

\* need_to_add = n_draws - floored.sum(): no class is raised when it is not
\* positive, and no more classes than there are
Allocations(C, share, n_draws) ==
    LET need_to_add == n_draws - SumOver([c \in C |-> share[c].floored], C)
    IN  Raised(C, share, IF need_to_add < 0 THEN 0
                         ELSE IF need_to_add > Cardinality(C) THEN Cardinality(C)
                         ELSE need_to_add)

\* _approximate_mode(class_counts, n_draws): every allocation it can return
ApproximateMode(class_counts, n_draws) ==
    Allocations(DOMAIN class_counts,
                Shares(class_counts, DOMAIN class_counts,
                       SumOver(class_counts, DOMAIN class_counts), n_draws),
                n_draws)

SplitAt(X, y, P) ==
    LET in_train == [i \in 1..Len(X) |-> i \in P]
        in_test == [i \in 1..Len(X) |-> i \notin P]
    IN  [kind |-> "ok",
         X_train |-> Take(X, in_train), X_test |-> Take(X, in_test),
         y_train |-> Take(y, in_train), y_test |-> Take(y, in_test)]

\* the split with n_test rows on the test side
SplitSized(X, y, test_size, n_test, classes, class_counts) ==
    IF \/ FCmp(test_size, FZero) <= 0 \/ FCmp(test_size, F1) >= 0
       \/ Len(X) - n_test = 0
       \/ \E c \in classes : class_counts[c] < 2
       \/ Len(X) - n_test < Cardinality(classes)
       \/ n_test < Cardinality(classes)
    THEN {[kind |-> "raise"]}
    ELSE LET allocations == ApproximateMode(class_counts, Len(X) - n_test)
         IN  {SplitAt(X, y, P) :
                P \in {P \in SUBSET (1..Len(X)) :
                         \E n_i \in allocations :
                            \A c \in classes :
                               Cardinality({i \in P : y[i] = c}) = n_i[c]}}

train_test_split(X, y, test_size) ==
    SplitSized(X, y, test_size, FCeil(FMul(test_size, FromInt(Len(X)))),
               Values(y), [c \in Values(y) |-> Count(y, c)])

\* line 214: test_size = int((val_percentage + test_percentage) * 100) / 100
FirstTestSize(val_percentage, test_percentage) ==
    LET sum == FAdd(Float(val_percentage), Float(test_percentage))
    IN  FDiv(FromInt(FFloor(FMul(sum, F100))), F100)

\* line 229:
\* test_size = (test_percentage * 100 / (val_percentage + test_percentage)) / 100
SecondTestSize(val_percentage, test_percentage) ==
    LET sum == FAdd(Float(val_percentage), Float(test_percentage))
    IN  FDiv(FDiv(FMul(Float(test_percentage), F100), sum), F100)

\* lines 210-223: the first split, of test_size, and its repair, the labels
\* of support 1 appended to train, and the return when there is no test set
FirstSplit(b, test_size, test_percentage) ==
    LET Finish(s, coin) ==
            LET r == remove_cross_contamination(s.X_train, s.X_test,
                                                s.y_train, s.y_test, coin)
                X_train == r.X_a \o b.single_files
            IN  IF test_percentage = 0
                THEN [kind |-> "return", train |-> Values(X_train),
                      val |-> Values(r.X_b), test |-> {}, test_none |-> TRUE]
                ELSE [kind |-> "continue", X_train |-> X_train,
                      X_tmp |-> r.X_b, y_tmp |-> r.y_b]
    IN  UNION {IF s.kind = "raise" THEN {s}
               ELSE {Finish(s, coin) : coin \in Coins(s.X_train)} :
               s \in train_test_split(b.file_indices, b.labels, test_size)}

\* lines 225-242: the second split, of test_size, and its repair, and the
\* three sets
SecondSplit(b, test_size) ==
    LET Finish(s, coin) ==
            LET r == remove_cross_contamination(s.X_train, s.X_test,
                                                s.y_train, s.y_test, coin)
            IN  [kind |-> "return", train |-> Values(b.X_train),
                 val |-> Values(r.X_a), test |-> Values(r.X_b),
                 test_none |-> FALSE]
    IN  UNION {IF s.kind = "raise" THEN {s}
               ELSE {Finish(s, coin) : coin \in Coins(s.X_train)} :
               s \in train_test_split(b.X_tmp, b.y_tmp, test_size)}

\* every outcome of _stratify_samples(idx_to_classes, split_seed,
\* test_percentage, val_percentage): a return or a raise
StratifySamples(idx, val_percentage, test_percentage) ==
    LET first_size == FirstTestSize(val_percentage, test_percentage)
        second_size == SecondTestSize(val_percentage, test_percentage)
    IN  UNION {IF b.kind # "continue" THEN {b}
               ELSE UNION {IF f.kind # "continue" THEN {f}
                           ELSE SecondSplit(f, second_size) :
                           f \in FirstSplit(b, first_size, test_percentage)} :
               b \in StratifyBegin(idx)}

(***************************************************************************)
(* The stratified partitioner on its own: any mapping, any of the valid    *)
(* fraction pairs, one action per stretch of the function.  Of the pairs,  *)
(* 0.42 and 0.28 give the second split the test_size 0.4000000000000001,   *)
(* and 0.001 and 0.009 give the first the test_size 0.0.                   *)
(***************************************************************************)
FracPairs == {<<500, 0>>, <<250, 250>>, <<420, 280>>, <<1, 9>>}

\* no lists/classes_<type>.txt yet: a file, once written, has a name in it
NoClassFiles == [tag |-> <<>>, polygon |-> <<>>]

RccIdle == [pc |-> "idle"]
StratIdle == [pc |-> "idle"]
RndIdle == [pc |-> "idle"]
SplitIdle ==
    /\ dataset = [size |-> 0, tag |-> <<>>, polygon |-> <<>>]
    /\ lists = FALSE
    /\ dirs = <<>>
    /\ class_files = NoClassFiles
    /\ alias = <<>>
    /\ last = [outcome |-> "idle"]
    /\ ncalls = 0

InitStratify ==
    /\ \E idx \in Mappings, fr \in FracPairs :
          strat = [pc |-> "call", idx_to_classes |-> idx,
                   val_percentage |-> fr[1], test_percentage |-> fr[2]]
    /\ rcc = RccIdle
    /\ rnd = RndIdle
    /\ SplitIdle

StratBegin ==
    /\ strat.pc = "call"
    /\ \E o \in StratifyBegin(strat.idx_to_classes) :
           strat' = [pc |-> IF o.kind = "continue" THEN "first" ELSE o.kind,
                     idx_to_classes |-> strat.idx_to_classes,
                     val_percentage |-> strat.val_percentage,
                     test_percentage |-> strat.test_percentage,
                     at |-> o]
    /\ UNCHANGED <<rcc, rnd, splitVars>>

StratFirst ==
    /\ strat.pc = "first"
    /\ \E o \in FirstSplit(strat.at,
                            FirstTestSize(strat.val_percentage, strat.test_percentage),
                            strat.test_percentage) :
          strat' = [strat EXCEPT !.pc = IF o.kind = "continue" THEN "second" ELSE o.kind,
                                 !.at = o]
    /\ UNCHANGED <<rcc, rnd, splitVars>>

StratSecond ==
    /\ strat.pc = "second"
    /\ \E o \in SecondSplit(strat.at,
                             SecondTestSize(strat.val_percentage, strat.test_percentage)) :
          strat' = [strat EXCEPT !.pc = o.kind, !.at = o]
    /\ UNCHANGED <<rcc, rnd, splitVars>>

NextStratify == StratBegin \/ StratFirst \/ StratSecond

SpecStratify == InitStratify /\ [][NextStratify]_vars

(***************************************************************************)
(* The repair on its own: any two occurrence arrays with parallel label    *)
(* arrays, any coin outcomes.                                              *)
(***************************************************************************)
RowsUpTo(n) == SeqsUpTo(RepairValues \X RepairLabels, n)

InitRepair ==
    /\ \E ra \in RowsUpTo(MaxLenA), rb \in RowsUpTo(MaxLenB) :
          rcc = [pc |-> "call",
                 X_a |-> Column(ra, 1), y_a |-> Column(ra, 2),
                 X_b |-> Column(rb, 1), y_b |-> Column(rb, 2)]
    /\ strat = StratIdle
    /\ rnd = RndIdle
    /\ SplitIdle

Repair ==
    /\ rcc.pc = "call"
    /\ \E coin \in Coins(rcc.X_a) :
          rcc' = [pc |-> "done",
                  X_a |-> rcc.X_a, y_a |-> rcc.y_a,
                  X_b |-> rcc.X_b, y_b |-> rcc.y_b,
                  out |-> remove_cross_contamination(rcc.X_a, rcc.X_b,
                                                     rcc.y_a, rcc.y_b, coin)]
    /\ UNCHANGED <<strat, rnd, splitVars>>

NextRepair == Repair

SpecRepair == InitRepair /\ [][NextRepair]_vars

(***************************************************************************)
(* The random split of split_dataset (lines 333-344): the sizes, then the  *)
(* slices of a permutation.  The sizes are computed for every dataset size *)
(* up to MaxSize, the permutations drawn up to MaxFiles.                   *)
(***************************************************************************)
MaxFiles == 4      \* most annotation files of a dataset whose indices are permuted
MaxSize == 50      \* most annotation files of a dataset whose split is sized

\* np.random.permutation(dataset_size): any arrangement of 0 .. size-1
permutation(dataset_size) ==
    {p \in [1..dataset_size -> 0..(dataset_size - 1)] :
        \A i, j \in 1..dataset_size : p[i] = p[j] => i = j}

\* X[lo:hi] for 0 <= lo, hi (clamped to the length, as Python slices are)
Slice(X, lo, hi) ==
    LET top == IF hi > Len(X) THEN Len(X) ELSE hi
    IN  IF lo >= top THEN <<>> ELSE [i \in 1..(top - lo) |-> X[lo + i]]

\* lines 335-338: val_size = int(dataset_size * val_percentage), test_size
\* likewise, the rest for train
RandomSizes(dataset_size, val_percentage, test_percentage) ==
    LET val_size == FFloor(FMul(FromInt(dataset_size), Float(val_percentage)))
        test_size == FFloor(FMul(FromInt(dataset_size), Float(test_percentage)))
    IN  [val_size |-> val_size, test_size |-> test_size,
         train_size |-> dataset_size - val_size - test_size]

\* a bug: the test slice starts where the validation slice starts
RandomSplitOverlap(dataset_size, val_percentage, test_percentage, indices) ==
    LET size == RandomSizes(dataset_size, val_percentage, test_percentage)
    IN  [train_indices |-> Slice(indices, 0, size.train_size),
         val_indices |-> Slice(indices, size.train_size,
                               size.train_size + size.val_size),
         test_indices |-> Slice(indices, size.train_size, Len(indices))]

\* lines 342-344: the three slices of the permuted indices
RandomSplit(dataset_size, val_percentage, test_percentage, indices) ==
    LET size == RandomSizes(dataset_size, val_percentage, test_percentage)
    IN  [train_indices |-> Slice(indices, 0, size.train_size),
         val_indices |-> Slice(indices, size.train_size,
                               size.train_size + size.val_size),
         test_indices |-> Slice(indices, size.train_size + size.val_size,
                                Len(indices))]

RandomFracPairs == FracPairs \cup {<<255, 0>>, <<330, 330>>, <<580, 0>>}

InitRandom ==
    /\ \E n \in 0..MaxSize, fr \in RandomFracPairs :
          rnd = [pc |-> "call", dataset_size |-> n,
                 val_percentage |-> fr[1], test_percentage |-> fr[2]]
    /\ rcc = RccIdle
    /\ strat = StratIdle
    /\ SplitIdle

\* lines 335-338
RandomSizesRun ==
    /\ rnd.pc = "call"
    /\ rnd' = [pc |-> "sized", dataset_size |-> rnd.dataset_size,
               val_percentage |-> rnd.val_percentage,
               test_percentage |-> rnd.test_percentage,
               size |-> RandomSizes(rnd.dataset_size, rnd.val_percentage,
                                    rnd.test_percentage)]
    /\ UNCHANGED <<rcc, strat, splitVars>>

\* lines 340-344
RandomSplitRun ==
    /\ rnd.pc = "sized"
    /\ rnd.dataset_size <= MaxFiles
    /\ \E indices \in permutation(rnd.dataset_size) :
          rnd' = [pc |-> "done", dataset_size |-> rnd.dataset_size,
                  val_percentage |-> rnd.val_percentage,
                  test_percentage |-> rnd.test_percentage,
                  size |-> rnd.size,
                  out |-> RandomSplit(rnd.dataset_size, rnd.val_percentage,
                                      rnd.test_percentage, indices)]
    /\ UNCHANGED <<rcc, strat, splitVars>>

NextRandom == RandomSizesRun \/ RandomSplitRun

SpecRandom == InitRandom /\ [][NextRandom]_vars

(***************************************************************************)
(* split_dataset, make_class_lists and the storage under <dataset>/lists.  *)
(* A split directory is known by its split_id; of its files only the names *)
(* are kept, as <<strategy, partition>> for <strategy>_<partition>.txt.    *)
(* made_by is history: the (val_percentage, test_percentage, split_seed)   *)
(* of the call that created the directory.  The dataset is passed as a     *)
(* path: "/data/ds" (absolute), "ds" (relative, from the directory above   *)
(* the dataset) or ".." (relative, from a directory of the dataset such as *)
(* annotations).                                                           *)
(***************************************************************************)
MaxCalls == 2      \* calls of split_dataset in one behaviour
MaxSeed == 2       \* seeds 0 .. MaxSeed

\* (val_percentage, test_percentage) as passed: four valid pairs, 0.29
\* among them, which line 305 makes 28 percent, and one pair for each way
\* the checks of lines 292-302 fail
Configs ==
    {<< <<250>>, <<0>> >>, << <<255>>, <<0>> >>, << <<290>>, <<0>> >>,
     << <<250>>, <<250>> >>,
     << <<>>, <<0>> >>, << <<0>>, <<0>> >>,
     << <<250>>, <<>> >>, << <<250>>, <<1000>> >>,
     << <<600>>, <<400>> >>}

Seeds == {<<>>} \cup {<<x>> : x \in 0..MaxSeed}

Paths == {"/data/ds", "ds", ".."}

Datasets ==
    {[size |-> 0, tag |-> <<>>, polygon |-> <<>>],
     [size |-> 2, tag |-> (0 :> {"a"} @@ 1 :> {"a"}), polygon |-> <<>>],
     [size |-> 3, tag |-> (0 :> {"a"} @@ 1 :> {"b"}),
      polygon |-> (0 :> {"a"} @@ 1 :> {"a"} @@ 2 :> {"a"})],
     [size |-> 3, tag |-> (0 :> {"a"} @@ 1 :> {"a"} @@ 2 :> {"a"}),
      polygon |-> (0 :> {"a"} @@ 1 :> {"a"})]}

\* lines 292-302: "ok", or the check on the fractions that raises
\* ValueError; the comparisons are on floats, and so is the sum
CheckFractions(val_percentage, test_percentage) ==
    IF val_percentage = <<>>
       \/ ~(/\ FCmp(FZero, Float(val_percentage[1])) < 0
            /\ FCmp(Float(val_percentage[1]), F1) < 0)
    THEN "val_percentage"
    ELSE IF test_percentage = <<>>
            \/ ~(/\ FCmp(FZero, Float(test_percentage[1])) <= 0
                 /\ FCmp(Float(test_percentage[1]), F1) < 0)
    THEN "test_percentage"
    ELSE IF ~(FCmp(FAdd(Float(val_percentage[1]), Float(test_percentage[1])),
                   F1) < 0)
    THEN "sum"
    ELSE "ok"

\* lines 292-304: "ok", or the check that raises ValueError, given the
\* outcome of the checks on the fractions
Validate(fractions, split_seed) ==
    IF fractions # "ok" THEN fractions
    ELSE IF split_seed = <<>> THEN "split_seed"
    ELSE "ok"

\* line 305: int(val_percentage*100) and int(test_percentage*100)
SplitPercents(val_percentage, test_percentage) ==
    <<FFloor(FMul(Float(val_percentage), F100)),
      FFloor(FMul(Float(test_percentage), F100))>>

\* lines 305-307: f"split_v{int(val_percentage*100)}_t{int(test_percentage*100)}"
\* from the two numbers of line 305 and, for a seed other than 0, the
\* literal "_s{split_seed}": the string appended is not an f-string, so no
\* seed is formatted into it.  The name is held as its three parts.
SplitId(percents, split_seed) ==
    <<percents[1], percents[2],
      IF split_seed # 0 THEN <<"_s", "{split_seed}">> ELSE <<>> >>

\* lines 311-327: the mapping returned, as the names of its files
Splits(test_percentage) ==
    ({"random", "stratified_tag", "stratified_polygon"} \X {"train", "val"})
    \cup (IF test_percentage > 0
          THEN {"random", "stratified_tag", "stratified_polygon"} \X {"test"}
          ELSE {})

\* the files one strategy writes: train, val and, with a test set, test
Written(strategy, test_percentage) ==
    {<<strategy, "train">>, <<strategy, "val">>}
    \cup (IF test_percentage > 0 THEN {<<strategy, "test">>} ELSE {})

\* lines 353-362 and 366-375: the outcomes of one stratified split of the
\* block, given the files written before it: nothing when no image carries
\* a label of the kind, else _stratify_samples raising or its three files
StratifiedPart(strategy, idx, val_percentage, test_percentage, before) ==
    IF DOMAIN idx = {} THEN {[raised_at |-> "", files |-> before]}
    ELSE {IF o.kind = "raise"
          THEN [raised_at |-> strategy, files |-> before]
          ELSE [raised_at |-> "",
                files |-> before \cup Written(strategy, test_percentage)] :
          o \in StratifySamples(idx, val_percentage, test_percentage)}

\* lines 333-375: every outcome of the block that computes the split: the
\* files it wrote and where, if anywhere, it raised
ComputeSplit(ds, val_percentage, test_percentage) ==
    LET random == Written("random", test_percentage)
    IN  UNION {IF a.raised_at # "" THEN {a}
               ELSE StratifiedPart("stratified_polygon", ds.polygon,
                                   val_percentage, test_percentage, a.files) :
               a \in StratifiedPart("stratified_tag", ds.tag,
                                    val_percentage, test_percentage, random)}

\* line 382: the link made by split.symlink_to(lists_path / split_id).  Its
\* text is <dataset_path>/lists/<split_id>, the path as the caller gave it
Link(dataset_path, split_id) == <<[path |-> dataset_path, split_id |-> split_id]>>

\* whether <dataset_path>/lists, read from <dataset>/lists, where the link
\* lies, is <dataset>/lists: so it is for the absolute path and for "..",
\* while "ds" leads to <dataset>/lists/ds/lists
LeadsToLists(dataset_path) == dataset_path \in {"/data/ds", ".."}

\* split.exists(): a symlink exists when its target does
Exists(link, directories) ==
    /\ link # <<>>
    /\ LeadsToLists(link[1].path)
    /\ link[1].split_id \in DOMAIN directories

\* lines 378-382: the default split after the call.  An existing link is
\* unlinked first; a link whose target is missing is not, and symlink_to
\* then raises FileExistsError with the link as it was
DefaultSplit(link, directories, make_default_split, split_id, dataset_path) ==
    IF make_default_split \/ ~Exists(link, directories)
    THEN IF link = <<>> \/ Exists(link, directories)
         THEN [raised |-> FALSE, link |-> Link(dataset_path, split_id)]
         ELSE [raised |-> TRUE, link |-> link]
    ELSE [raised |-> FALSE, link |-> link]

Called(dataset_path, val_percentage, test_percentage, split_seed, force_resplit, make_default_split) ==
    [dataset_path |-> dataset_path,
     val_percentage |-> val_percentage, test_percentage |-> test_percentage,
     split_seed |-> split_seed, force_resplit |-> force_resplit,
     make_default_split |-> make_default_split, outcome |-> "ValueError",
     raised_at |-> "", existed |-> FALSE, computed |-> FALSE,
     split_id |-> <<>>, splits |-> {}]

InitSplit ==
    /\ dataset \in Datasets
    /\ lists = FALSE
    /\ dirs = <<>>
    /\ class_files = NoClassFiles
    /\ alias = <<>>
    /\ last = [Called("/data/ds", <<>>, <<>>, <<>>, FALSE, FALSE)
                  EXCEPT !.outcome = "idle"]
    /\ ncalls = 0
    /\ rcc = RccIdle
    /\ strat = StratIdle
    /\ rnd = RndIdle

\* lines 377-384: the default split and the return, or FileExistsError
MakeDefaultSplit(here, directories, split_id) ==
    LET d == DefaultSplit(alias, directories, here.make_default_split,
                          split_id, here.dataset_path)
    IN  /\ alias' = d.link
        /\ last' = IF d.raised
                   THEN [here EXCEPT !.outcome = "FileExistsError",
                                     !.raised_at = "symlink_to"]
                   ELSE [here EXCEPT !.outcome = "return"]

\* split_dataset(dataset, val_percentage, test_percentage, force_resplit,
\*               split_seed, make_default_split), the whole call, given what
\* its fractions alone decide: `fractions`, the outcome of the checks of
\* lines 292-302, `percents`, the two numbers of line 305, and `outcomes`,
\* the outcomes of the block of lines 333-375
split_dataset(call, fractions, percents, outcomes) ==
    LET check == Validate(fractions, call.split_seed)
    IN  /\ lists' = TRUE
        /\ IF check # "ok"
           THEN /\ last' = [call EXCEPT !.raised_at = check]
                /\ UNCHANGED <<dirs, alias>>
           ELSE LET split_id == SplitId(percents, call.split_seed[1])
                    here == [call EXCEPT !.split_id = <<split_id>>,
                                         !.splits = Splits(call.test_percentage[1]),
                                         !.existed = split_id \in DOMAIN dirs]
                IN  IF split_id \in DOMAIN dirs
                    THEN /\ dirs' = dirs
                         /\ MakeDefaultSplit(here, dirs, split_id)
                    ELSE \E o \in outcomes :
                            /\ dirs' = (split_id :>
                                          [files |-> o.files,
                                           made_by |-> <<call.val_percentage[1],
                                                         call.test_percentage[1],
                                                         call.split_seed[1]>>])
                                       @@ dirs
                            /\ IF o.raised_at # ""
                               THEN /\ alias' = alias
                                    /\ last' = [here EXCEPT !.computed = TRUE,
                                                   !.raised_at = o.raised_at]
                               ELSE MakeDefaultSplit([here EXCEPT !.computed = TRUE],
                                                     dirs', split_id)

\* the calls of split_dataset with one pair of fractions and any other
\* arguments
SplitDatasetCalls(val_percentage, test_percentage, fractions, percents, outcomes) ==
    \E dataset_path \in Paths, split_seed \in Seeds,
       force_resplit \in BOOLEAN, make_default_split \in BOOLEAN :
       split_dataset(Called(dataset_path, val_percentage, test_percentage,
                            split_seed, force_resplit, make_default_split),
                     fractions, percents, outcomes)

\* a call of split_dataset, with any arguments; what the fractions alone
\* decide is worked out once for each pair
SplitDataset ==
    /\ ncalls < MaxCalls
    /\ ncalls' = ncalls + 1
    /\ \E c \in Configs :
          SplitDatasetCalls(c[1], c[2], CheckFractions(c[1], c[2]),
                            SplitPercents(c[1][1], c[2][1]),
                            ComputeSplit(dataset, c[1][1], c[2][1]))
    /\ UNCHANGED <<dataset, class_files, rcc, strat, rnd>>

\* lines 75-77: the names of the classes of one annotation type, sorted
ClassNames(idx) ==
    LET classes == UNION {idx[k] : k \in DOMAIN idx}
    IN  Take(LabelSeq, [i \in 1..Len(LabelSeq) |-> LabelSeq[i] \in classes])

\* make_class_lists(dataset): lists/ is made and, for each annotation type
\* with a class, lists/classes_<type>.txt is written
make_class_lists ==
    /\ lists' = TRUE
    /\ class_files' =
          [annotation_type \in {"tag", "polygon"} |->
              LET classes_names == ClassNames(dataset[annotation_type])
              IN  IF Len(classes_names) > 0 THEN classes_names
                  ELSE class_files[annotation_type]]

MakeClassLists ==
    /\ make_class_lists
    /\ UNCHANGED <<dataset, dirs, alias, last, ncalls, rcc, strat, rnd>>

NextSplit == SplitDataset \/ MakeClassLists

SpecSplit == InitSplit /\ [][NextSplit]_vars

(***************************************************************************)
(* The claims.                                                             *)
(***************************************************************************)
Support(idx, l) == Cardinality({k \in DOMAIN idx : l \in idx[k]})

Returned == strat.pc = "return"

\* C1: the three index sets returned by _stratify_samples are pairwise
\* disjoint, for every mapping, fraction pair, sampler outcome and coin flip.
C1_PairwiseDisjoint ==
    Returned =>
        /\ strat.at.train \cap strat.at.val = {}
        /\ strat.at.val \cap strat.at.test = {}
        /\ strat.at.train \cap strat.at.test = {}

\* C2: the image carrying a label of support 1 is in the train set returned
\* and in neither the val set nor the test set.
C2_SingletonInTrain ==
    Returned =>
        \A l \in Labels, k \in DOMAIN strat.idx_to_classes :
            (l \in strat.idx_to_classes[k] /\ Support(strat.idx_to_classes, l) = 1)
            => /\ k \in strat.at.train
               /\ k \notin strat.at.val
               /\ k \notin strat.at.test

\* no label of the mapping has two images: nothing is left to stratify
Degenerate(idx) == \A l \in Labels : Support(idx, l) <= 1

\* C8: given the empty mapping, or one in which every label has support 1,
\* _stratify_samples raises nothing and returns empty train and val and an
\* empty test (None in its place when the test fraction is zero).
C8_DegenerateReturnsEmpty ==
    (strat.pc \notin {"idle", "call"} /\ Degenerate(strat.idx_to_classes)) =>
        /\ strat.pc = "return"
        /\ strat.at.train = {}
        /\ strat.at.val = {}
        /\ strat.at.test = {}
        /\ strat.at.test_none = (strat.test_percentage = 0)

Repaired == rcc.pc = "done"

Common(X, Y) == Values(X) \cap Values(Y)

\* C9: remove_cross_contamination draws the coin exactly once for each value
\* common to A and B; afterwards exactly one of A and B holds the value, with
\* all its occurrences, and the other holds none; a value not common to both
\* keeps all its occurrences in both.
C9_EachCommonValueOnce ==
    Repaired =>
        \A a \in RepairValues :
            IF a \in Common(rcc.X_a, rcc.X_b)
            THEN /\ Count(rcc.out.flipped, a) = 1
                 /\ \/ /\ Count(rcc.out.X_a, a) = Count(rcc.X_a, a)
                       /\ Count(rcc.out.X_b, a) = 0
                    \/ /\ Count(rcc.out.X_a, a) = 0
                       /\ Count(rcc.out.X_b, a) = Count(rcc.X_b, a)
            ELSE /\ Count(rcc.out.X_a, a) = Count(rcc.X_a, a)
                 /\ Count(rcc.out.X_b, a) = Count(rcc.X_b, a)

\* (X_out, y_out) is (X, y) with some rows dropped: one choice of rows gives
\* both, so the pairs stay together and in order
FilteredTogether(X, y, X_out, y_out) ==
    /\ Len(X_out) = Len(y_out)
    /\ \E keep \in [1..Len(X) -> BOOLEAN] :
          Take(X, keep) = X_out /\ Take(y, keep) = y_out

\* C10: the arrays remove_cross_contamination returns have no value in
\* common, and each label array is filtered exactly as its index array: the
\* (index, label) pairs returned are a subsequence of the pairs passed.
C10_NoCommonValueLabelsFollow ==
    Repaired =>
        /\ Common(rcc.out.X_a, rcc.out.X_b) = {}
        /\ FilteredTogether(rcc.X_a, rcc.y_a, rcc.out.X_a, rcc.out.y_a)
        /\ FilteredTogether(rcc.X_b, rcc.y_b, rcc.out.X_b, rcc.out.y_b)

\* a repair that dropped a value repeated in A from A, with its labels,
\* kept it in B and kept another value in A
C10_Witness ==
    /\ Repaired
    /\ \E a \in Common(rcc.X_a, rcc.X_b) :
          /\ Count(rcc.X_a, a) = 2
          /\ Count(rcc.out.X_a, a) = 0
          /\ Count(rcc.out.X_b, a) > 0
    /\ Len(rcc.out.X_a) > 0
    /\ rcc.out.y_a # rcc.y_a

\* C3: the random split gives train, val and test lists that are pairwise
\* disjoint, of lengths n - floor(n*val) - floor(n*test), floor(n*val) and
\* floor(n*test), which sum to n: every index 0 .. n-1 is in exactly one list.
\* n*val is the product of the int and the float passed, a float, as
\* dataset_size * val_percentage is in Python, and the floor is taken of it.
C3_RandomSplitPartitions ==
    LET n == rnd.dataset_size
        val_len == FFloor(FMul(FromInt(n), Float(rnd.val_percentage)))
        test_len == FFloor(FMul(FromInt(n), Float(rnd.test_percentage)))
    IN  /\ rnd.pc \in {"sized", "done"} =>
              /\ rnd.size.train_size = n - val_len - test_len
              /\ rnd.size.val_size = val_len
              /\ rnd.size.test_size = test_len
              /\ rnd.size.train_size >= 0
        /\ rnd.pc = "done" =>
              LET train == rnd.out.train_indices
                  val == rnd.out.val_indices
                  test == rnd.out.test_indices
              IN  /\ Values(train) \cap Values(val) = {}
                  /\ Values(val) \cap Values(test) = {}
                  /\ Values(train) \cap Values(test) = {}
                  /\ Len(train) = n - val_len - test_len
                  /\ Len(val) = val_len
                  /\ Len(test) = test_len
                  /\ Len(train) + Len(val) + Len(test) = n
                  /\ \A i \in 0..(n - 1) :
                        Count(train, i) + Count(val, i) + Count(test, i) = 1

\* a random split with all three lists non-empty
C3_Witness ==
    /\ rnd.pc = "done"
    /\ Len(rnd.out.train_indices) > 1
    /\ Len(rnd.out.val_indices) > 0
    /\ Len(rnd.out.test_indices) > 0

\* the percent of line 305 a fraction gives
Percent(fraction) == SplitPercents(fraction, 0)[1]

\* the last call found its split directory on storage, made by a call with
\* the same percentages and seed
SameSplitAgain ==
    /\ last.outcome = "return"
    /\ last.existed
    /\ dirs[last.split_id[1]].made_by =
          <<last.val_percentage[1], last.test_percentage[1], last.split_seed[1]>>

\* C4: a call that finds the split directory of its own (val, test, seed)
\* on storage reuses it without recomputing when force_resplit is false, and
\* recomputes and rewrites it when force_resplit is true.
C4_ForceResplitRecomputes ==
    SameSplitAgain => (last.computed <=> last.force_resplit)

\* C5: the split identity is distinct for each (val percent, test percent,
\* seed): a call never reuses a split directory made by a call with the same
\* percents and another seed.
C5_IdentityHasSeed ==
    (last.outcome = "return" /\ last.existed) =>
        LET by == dirs[last.split_id[1]].made_by
        IN  (/\ Percent(by[1]) = Percent(last.val_percentage[1])
             /\ Percent(by[2]) = Percent(last.test_percentage[1]))
            => by[3] = last.split_seed[1]

\* C6: a call with an invalid configuration raises before any file-system
\* operation: storage is as it was before the call.
C6_InvalidConfigTouchesNothing ==
    [][(ncalls' = ncalls + 1 /\ last'.outcome = "ValueError"
        /\ last'.raised_at \in {"val_percentage", "test_percentage", "sum",
                                "split_seed"})
       => (lists' = lists /\ dirs' = dirs /\ alias' = alias)]_vars

\* the default split leads to the directory of this split
PointsTo(link, directories, split_id) ==
    Exists(link, directories) /\ link[1].split_id = split_id

\* C7: in a call that returns, the default split changes only if
\* make_default_split is true or no default split existed before the call,
\* and then it points to the split of that call; otherwise it is unchanged.
C7_DefaultSplitFrame ==
    [][(ncalls' = ncalls + 1 /\ last'.outcome = "return")
       => LET asked == last'.make_default_split \/ ~Exists(alias, dirs)
          IN  /\ alias' # alias => asked
              /\ asked => PointsTo(alias', dirs', last'.split_id[1])
              /\ ~asked => alias' = alias]_vars

\* C11: for a mapping that is not the all-singleton case, the union of the
\* train, val and test sets _stratify_samples returns is the set of image
\* indices of the mapping: no labelled image is left out of all three.
C11_UnionIsAllImages ==
    (Returned /\ ~Degenerate(strat.idx_to_classes)) =>
        strat.at.train \cup strat.at.val \cup strat.at.test
            = DOMAIN strat.idx_to_classes


\* the files a call with these fractions writes when nothing raises
CompleteFiles(val_percentage, test_percentage) ==
    {o.files : o \in {c \in ComputeSplit(dataset, val_percentage, test_percentage) :
                         c.raised_at = ""}}

\* the directory was left by a call that raised partway through the split:
\* it lacks files a finished split of its maker would have written
PartlyWritten(split_id) ==
    LET by == dirs[split_id].made_by
    IN  dirs[split_id].files \notin CompleteFiles(by[1], by[2])

\* the random_train and random_val files the last call names are on storage
RandomManifestsPresent ==
    /\ last.split_id[1] \in DOMAIN dirs
    /\ \A f \in {<<"random", "train">>, <<"random", "val">>} :
          f \in last.splits /\ f \in dirs[last.split_id[1]].files

\* C12: after any calls, also ones that raised partway through the split,
\* a call that returns leaves the random_train and random_val files of its
\* mapping on storage, and has not taken a partly written split directory
\* for a cached manifest.
C12_NoPartialManifestReused ==
    last.outcome = "return" =>
        /\ RandomManifestsPresent
        /\ ~(last.existed /\ PartlyWritten(last.split_id[1]))

====
